---- MODULE Spec2Model ----
(***************************************************************************)
(* A model of the core of the gogotelehash switch:                         *)
(*   - the Kademlia routing table (modules/dht/kademlia/table.go),         *)
(*   - the channel controller (controller_channel.go) with the packet      *)
(*     predicate JustAck (pkt.go).                                         *)
(* Hashnames are KeyBits-bit naturals; the per-bucket capacities of the    *)
(* table are scaled down so that the full-bucket paths are exercised.      *)
(***************************************************************************)
EXTENDS Integers, Sequences, FiniteSets, TLC

\* ------------------------------------------------------------------ bounds
\* Width of a hashname in bits (KeyLen * 8 = 256 in the source).
KeyBits == 3
\* table.go:16-18, scaled down from 32 / 128 / 5.
maxPeers == 2
maxCandidates == 2
maxRoutersPerCandidate == 2
\* Number of mesh tags the environment hands to activatePeer.
MaxTags == 3

\* table.go:15  numBuckets = KeyLen * 8
numBuckets == KeyBits

RECURSIVE Pow2(_)
Pow2(n) == IF n = 0 THEN 1 ELSE 2 * Pow2(n - 1)

Hashnames == 0 .. (Pow2(KeyBits) - 1)
\* The local hashnames tried: with the first the other hashnames spread over
\* the buckets, with the second the low hashnames all share bucket 0.
Locals == {0, Pow2(KeyBits) - 1}
\* The hashnames passed to the table operations: the local ones and
\* maxPeers + 1 others, one more than a bucket can hold.
Inputs == (0 .. maxPeers) \cup Locals
Routers == {1, 2}
Tags == 1 .. MaxTags

\* The routing table, the mesh tags and the record of the last table call.
VARIABLES localHashname, buckets, released, nextTag, lastOp
\* The channel controller: the registry h.channels (its keys), the channel
\* objects by id, the state of each remote-opened channel's handler task, the
\* packets handed to the line layer, what Receive returned per channel and,
\* per channel, which data packets its open receive buffer was offered (and
\* whether one came ahead of its turn or twice).
VARIABLES channels, chan, handler, wire, delivered, offered

\* The tasks of the controller: where each task is, the task that holds
\* h.channels_mtx, the packet the line task has in hand, the registry entries
\* _close_channels has still to visit, and whether a read of the registry ran
\* into a write of it.
VARIABLES pc, mtx, cur, todo, fault

\* The codec: the packet given to format_pkt, the bytes of the datagram, and
\* what parse_pkt made of them.
VARIABLES outPkt, data, inPkt

tvars == <<localHashname, buckets, released, nextTag, lastOp>>
cvars == <<channels, chan, handler, wire, delivered, offered>>
svars == <<pc, mtx, cur, todo, fault>>
kvars == <<outPkt, data, inPkt>>
vars == <<localHashname, buckets, released, nextTag, lastOp,
          channels, chan, handler, wire, delivered, offered,
          pc, mtx, cur, todo, fault, outPkt, data, inPkt>>

\* ------------------------------------------------- hashname and distance
RECURSIVE XOR(_, _)
XOR(a, b) ==
  IF a = 0 /\ b = 0 THEN 0
  ELSE (((a % 2) + (b % 2)) % 2) + 2 * XOR(a \div 2, b \div 2)

\* distance(a, b): the XOR of the two hashnames.
distance(a, b) == XOR(a, b)

\* keyDistance(hn, key): the same metric against a lookup key.
keyDistance(hn, key) == XOR(hn, key)

RECURSIVE HighBit(_)
HighBit(d) == IF d \div 2 = 0 THEN 0 ELSE 1 + HighBit(d \div 2)

\* -1 for the zero distance, else (numBuckets-1) - index of the highest set bit.
bucketFromDistance(d) == IF d = 0 THEN -1 ELSE (numBuckets - 1) - HighBit(d)

\* unsigned big-endian lexicographic order = numeric order.
distanceLess(x, y) == x < y

\* ------------------------------------------------------- list utilities
Range(s) == {s[i] : i \in 1 .. Len(s)}

\* Index of the first entry of list l whose hashname is hn, 0 when absent
\* (the for e := l.Front(); e != nil; e = e.Next() loops of table.go).
IndexOf(l, hn) ==
  IF \E i \in 1 .. Len(l) : l[i].hashname = hn
  THEN CHOOSE i \in 1 .. Len(l) :
         /\ l[i].hashname = hn
         /\ \A j \in 1 .. (i - 1) : l[j].hashname # hn
  ELSE 0

\* list.Remove(e) of the element at index i.
RemoveAt(l, i) == [j \in 1 .. (Len(l) - 1) |-> IF j < i THEN l[j] ELSE l[j + 1]]

\* Remove the first entry with hashname hn, if any (loop with break).
RemoveFirst(l, hn) ==
  IF IndexOf(l, hn) = 0 THEN l ELSE RemoveAt(l, IndexOf(l, hn))

Names(l) == {l[i].hashname : i \in 1 .. Len(l)}

\* Go's s[:n]
Trim(s, n) == IF Len(s) > n THEN SubSeq(s, 1, n) ELSE s

\* tag.Release(): one more release recorded for the tag.
Release(rel, tag) == [rel EXCEPT ![tag] = @ + 1]

\* --------------------------------------------------------- routing table
peerInfo(hn, bucketIdx, dist) ==
  [bucket |-> bucketIdx, distance |-> dist, hashname |-> hn]

activePeer(hn, bucketIdx, dist, tag) ==
  [bucket |-> bucketIdx, distance |-> dist, hashname |-> hn, tag |-> tag]

candidatePeer(hn, bucketIdx, dist, routers) ==
  [bucket |-> bucketIdx, distance |-> dist, hashname |-> hn, routers |-> routers]

emptyBucket(i) == [id |-> i, peers |-> <<>>, candidates |-> <<>>, pending |-> <<>>]

\* table.init
tableInit == [i \in 0 .. (numBuckets - 1) |-> emptyBucket(i)]

TableInit ==
  /\ localHashname \in Locals
  /\ buckets = tableInit
  /\ released = [t \in Tags |-> 0]
  /\ nextTag = 1
  /\ lastOp = [op |-> "init", hn |-> 0, arg |-> 0, out |-> <<>>]

\* ------------------------------------------------------------- findKey
\* table.go:19
defaultLookupSize == 32

\* The peerInfo of every active peer of bucket idx, in list order
\* (the three collection loops of findKey); nothing when idx is out of range.
collect(idx) ==
  IF idx >= 0 /\ idx < numBuckets
  THEN [i \in 1 .. Len(buckets[idx].peers) |->
          peerInfo(buckets[idx].peers[i].hashname,
                   buckets[idx].peers[i].bucket,
                   buckets[idx].peers[i].distance)]
  ELSE <<>>

\* table.go:92-122: the outward walk, lower bucket first, then higher bucket.
RECURSIVE walk(_, _, _, _)
walk(peers, bucketIdx, offset, n) ==
  IF Len(peers) < n /\ offset < numBuckets
  THEN walk(peers \o collect(bucketIdx - offset) \o collect(bucketIdx + offset),
            bucketIdx, offset + 1, n)
  ELSE peers

\* The distances left as they are in the table: distances to the local
\* hashname.
redistance_kept(peers, key) == peers

\* table.go:125-128: each peer's distance recomputed against the key.
redistance(peers, key) ==
  [i \in 1 .. Len(peers) |->
     [peers[i] EXCEPT !.distance = keyDistance(peers[i].hashname, key)]]

\* sort.Sort(peerInfoByDistance(peers)): ascending by distanceLess.
RECURSIVE insertSorted(_, _)
insertSorted(s, p) ==
  IF s = <<>> THEN <<p>>
  ELSE IF distanceLess(p.distance, Head(s).distance) THEN <<p>> \o s
  ELSE <<Head(s)>> \o insertSorted(Tail(s), p)

RECURSIVE sortByDistance(_)
sortByDistance(s) ==
  IF s = <<>> THEN <<>>
  ELSE insertSorted(sortByDistance(SubSeq(s, 1, Len(s) - 1)), s[Len(s)])

\* table.go:57-144
findKey(key, n0) ==
  LET n == IF n0 = 0 THEN defaultLookupSize ELSE n0
      dist == keyDistance(localHashname, key)
      idx0 == bucketFromDistance(dist)
      bucketIdx == IF idx0 < 0 THEN 0 ELSE idx0
      gathered == walk(collect(bucketIdx), bucketIdx, 1, n)
      sorted == sortByDistance(redistance(gathered, key))
      trimmed == Trim(sorted, n)
  IN [i \in 1 .. Len(trimmed) |-> trimmed[i].hashname]

\* --------------------------------------------------------- nextCandidate
\* The first skip of the loop left out: any bucket with a candidate.
eligible_anyCandidate(b) == Len(b.candidates) # 0

\* table.go:170-188: the first bucket, in index order, that is not skipped.
eligible(b) ==
  /\ (Len(b.peers) + Len(b.pending)) # maxPeers
  /\ Len(b.candidates) # 0

nextBucket ==
  IF \E i \in 0 .. (numBuckets - 1) : eligible(buckets[i])
  THEN CHOOSE i \in 0 .. (numBuckets - 1) :
         /\ eligible(buckets[i])
         /\ \A j \in 0 .. (i - 1) : ~eligible(buckets[j])
  ELSE -1

\* table.go:166-191: the candidate returned, <<>> standing for nil.
nextCandidateResult ==
  IF nextBucket < 0 THEN <<>> ELSE <<Head(buckets[nextBucket].candidates)>>

nextCandidate ==
  IF nextBucket < 0
  THEN UNCHANGED buckets
  ELSE LET b == buckets[nextBucket]
           c == Head(b.candidates)
       IN buckets' = [buckets EXCEPT ![nextBucket] =
                        [b EXCEPT !.candidates = Tail(b.candidates),
                                  !.pending = Append(b.pending, c)]]

\* ---------------------------------------------------------- activatePeer
activateSelf_keepTag(tag) == UNCHANGED <<released, buckets>>

\* table.go:203-207: cannot link self.
activateSelf(tag) ==
  /\ released' = Release(released, tag)
  /\ UNCHANGED buckets

\* The entry taken out and a new one pushed to the back instead of the swap.
activateUpdate_pushBack(bucketIdx, pend, i, tag) ==
  /\ released' = Release(released, buckets[bucketIdx].peers[i].tag)
  /\ buckets' = [buckets EXCEPT ![bucketIdx] =
                   [buckets[bucketIdx] EXCEPT
                      !.pending = pend,
                      !.peers = Append(RemoveAt(buckets[bucketIdx].peers, i),
                                       [buckets[bucketIdx].peers[i] EXCEPT !.tag = tag])]]

activateUpdate_leak(bucketIdx, pend, i, tag) ==
  /\ released' = released
  /\ buckets' = [buckets EXCEPT ![bucketIdx] =
                   [buckets[bucketIdx] EXCEPT !.pending = pend,
                                              !.peers[i].tag = tag]]

\* table.go:220-228: hn is already active at index i; the old tag is
\* released and the new one swapped in.  pend is the pending list after
\* lines 211-218.
activateUpdate(bucketIdx, pend, i, tag) ==
  /\ released' = Release(released, buckets[bucketIdx].peers[i].tag)
  /\ buckets' = [buckets EXCEPT ![bucketIdx] =
                   [buckets[bucketIdx] EXCEPT !.pending = pend,
                                              !.peers[i].tag = tag]]

tooManyPeers_offByOne(bucket) == Len(bucket.peers) > maxPeers

\* table.go:231
tooManyPeers(bucket) == Len(bucket.peers) >= maxPeers

\* table.go:193-245
activatePeer(hn, tag) ==
  LET dist == distance(localHashname, hn)
      bucketIdx == bucketFromDistance(dist)
  IN IF bucketIdx < 0
     THEN activateSelf(tag)
     ELSE LET bucket == buckets[bucketIdx]
              \* remove from pending list
              pend == RemoveFirst(bucket.pending, hn)
              i == IndexOf(bucket.peers, hn)
          IN IF i > 0
             THEN activateUpdate(bucketIdx, pend, i, tag)
             ELSE IF tooManyPeers(bucket)
             THEN \* too many peers
                  /\ released' = Release(released, tag)
                  /\ buckets' = [buckets EXCEPT ![bucketIdx] =
                                   [bucket EXCEPT !.pending = pend]]
             ELSE \* add peer
                  /\ released' = released
                  /\ buckets' = [buckets EXCEPT ![bucketIdx] =
                                   [bucket EXCEPT
                                      !.pending = pend,
                                      !.peers = Append(bucket.peers,
                                         activePeer(hn, bucketIdx, dist, tag))]]

\* -------------------------------------------------------- deactivatePeer
\* table.go:247-291
deactivatePeer(hn) ==
  LET dist == distance(localHashname, hn)
      bucketIdx == bucketFromDistance(dist)
  IN IF bucketIdx < 0
     THEN \* cannot unlink self
          UNCHANGED <<buckets, released>>
     ELSE LET bucket == buckets[bucketIdx]
              i == IndexOf(bucket.peers, hn)
          IN /\ released' = IF i > 0 THEN Release(released, bucket.peers[i].tag)
                            ELSE released
             /\ buckets' = [buckets EXCEPT ![bucketIdx] =
                              [bucket EXCEPT
                                 !.peers = RemoveFirst(bucket.peers, hn),
                                 !.candidates = RemoveFirst(bucket.candidates, hn),
                                 !.pending = RemoveFirst(bucket.pending, hn)]]

\* ---------------------------------------------------------- addCandidate
\* table.go:331-341: the router merge loop followed by the trim.  The loop
\* ranges over the routers the candidate had on entry and appends every one
\* of them that differs from the new router.
mergeRouters(routers, router) ==
  Trim(routers \o SelectSeq(routers, LAMBDA r : r # router),
       maxRoutersPerCandidate)

\* table.go:293-358
addCandidate(hn, router) ==
  LET dist == distance(localHashname, hn)
      bucketIdx == bucketFromDistance(dist)
  IN IF bucketIdx < 0
     THEN \* cannot add self
          UNCHANGED buckets
     ELSE LET bucket == buckets[bucketIdx]
              i == IndexOf(bucket.candidates, hn)
          IN IF IndexOf(bucket.peers, hn) > 0 THEN UNCHANGED buckets
             ELSE IF IndexOf(bucket.pending, hn) > 0 THEN UNCHANGED buckets
             ELSE IF i > 0
             THEN buckets' = [buckets EXCEPT ![bucketIdx] =
                    [bucket EXCEPT !.candidates[i].routers =
                       mergeRouters(bucket.candidates[i].routers, router)]]
             ELSE IF Len(bucket.candidates) < maxCandidates
             THEN buckets' = [buckets EXCEPT ![bucketIdx] =
                    [bucket EXCEPT !.candidates =
                       Append(bucket.candidates,
                              candidatePeer(hn, bucketIdx, dist, <<router>>))]]
             ELSE UNCHANGED buckets

\* ================================================================ packets
\* pkt.go:18-39: the zero header.  A nil Ack, Miss, See and an empty Custom
\* are <<>>; a set Ack is <<a>>.
zeroHdr ==
  [Type |-> "", Line |-> "", Iv |-> "", Open |-> "", Sig |-> "", C |-> "",
   To |-> "", At |-> 0, Family |-> "", Seq |-> 0, Ack |-> <<>>, Miss |-> <<>>,
   End |-> FALSE, Err |-> "", Seek |-> "", See |-> <<>>, Peer |-> "",
   IP |-> "", Port |-> 0, Custom |-> <<>>]

\* pkt.go:11-16 (the UDP address plays no part in the channel layer).
mkPkt(hdr, body, peer) == [hdr |-> hdr, body |-> body, peer |-> peer]

\* The test of Seq turned around.
hdrJustAck_seqSet(h) ==
  /\ h.Type = "" /\ h.Line = "" /\ h.Iv = "" /\ h.Open = "" /\ h.Sig = ""
  /\ h.To = "" /\ h.At = 0 /\ h.Family = "" /\ h.Seq # 0
  /\ h.Ack # <<>>
  /\ h.End = FALSE /\ h.Err = "" /\ h.Seek = "" /\ h.See = <<>>
  /\ h.Peer = "" /\ h.IP = "" /\ h.Port = 0
  /\ Len(h.Custom) = 0

\* pkt.go:45-67
hdrJustAck(h) ==
  /\ h.Type = "" /\ h.Line = "" /\ h.Iv = "" /\ h.Open = "" /\ h.Sig = ""
  /\ h.To = "" /\ h.At = 0 /\ h.Family = "" /\ h.Seq = 0
  /\ h.Ack # <<>>
  /\ h.End = FALSE /\ h.Err = "" /\ h.Seek = "" /\ h.See = <<>>
  /\ h.Peer = "" /\ h.IP = "" /\ h.Port = 0
  /\ Len(h.Custom) = 0

\* pkt.go:41-43
JustAck(p) == Len(p.body) = 0 /\ hdrJustAck(p.hdr)

\* ================================================================== codec
\* A byte of an encoded header is a one-character string; the two bytes of
\* the length prefix are numbers.
DQ == "\""
BS == "\\"
NL == "\n"
Digits == <<"0", "1", "2", "3", "4", "5", "6", "7", "8", "9">>

\* The bytes of the strings that header fields take.
HdrStrings == {"", "t", "c1", "q\"", "a\\"}
chars(s) ==
  CASE s = "" -> <<>>
    [] s = "t" -> <<"t">>
    [] s = "c1" -> <<"c", "1">>
    [] s = "q\"" -> <<"q", DQ>>
    [] s = "a\\" -> <<"a", BS>>

\* The string with the given bytes.
str(cs) == CHOOSE s \in HdrStrings : chars(s) = cs

\* pkt.go:18-39: the fields of pkt_hdr_t in their order, each with its JSON
\* key and the kind of its Go type.  All of them are omitempty.
HdrFields ==
  << [key |-> <<"t", "y", "p", "e">>, name |-> "Type", kind |-> "string"],
     [key |-> <<"l", "i", "n", "e">>, name |-> "Line", kind |-> "string"],
     [key |-> <<"i", "v">>, name |-> "Iv", kind |-> "string"],
     [key |-> <<"o", "p", "e", "n">>, name |-> "Open", kind |-> "string"],
     [key |-> <<"s", "i", "g">>, name |-> "Sig", kind |-> "string"],
     [key |-> <<"c">>, name |-> "C", kind |-> "string"],
     [key |-> <<"t", "o">>, name |-> "To", kind |-> "string"],
     [key |-> <<"a", "t">>, name |-> "At", kind |-> "int"],
     [key |-> <<"f", "a", "m", "i", "l", "y">>, name |-> "Family", kind |-> "string"],
     [key |-> <<"s", "e", "q">>, name |-> "Seq", kind |-> "int"],
     [key |-> <<"a", "c", "k">>, name |-> "Ack", kind |-> "intptr"],
     [key |-> <<"m", "i", "s", "s">>, name |-> "Miss", kind |-> "ints"],
     [key |-> <<"e", "n", "d">>, name |-> "End", kind |-> "bool"],
     [key |-> <<"e", "r", "r">>, name |-> "Err", kind |-> "string"],
     [key |-> <<"s", "e", "e", "k">>, name |-> "Seek", kind |-> "string"],
     [key |-> <<"s", "e", "e">>, name |-> "See", kind |-> "strings"],
     [key |-> <<"p", "e", "e", "r">>, name |-> "Peer", kind |-> "string"],
     [key |-> <<"i", "p">>, name |-> "IP", kind |-> "string"],
     [key |-> <<"p", "o", "r", "t">>, name |-> "Port", kind |-> "int"],
     [key |-> <<"_">>, name |-> "Custom", kind |-> "raw"] >>

\* ------------------------------------------- json.NewEncoder(buf).Encode
\* A string between quotes, quote and backslash escaped.
RECURSIVE escape(_)
escape(cs) ==
  IF cs = <<>> THEN <<>>
  ELSE (IF Head(cs) \in {DQ, BS} THEN <<BS, Head(cs)>> ELSE <<Head(cs)>>)
         \o escape(Tail(cs))

enc_string(cs) == <<DQ>> \o escape(cs) \o <<DQ>>

\* A non-negative integer in decimal.
RECURSIVE itoa(_)
itoa(n) ==
  IF n < 10 THEN <<Digits[n + 1]>>
  ELSE itoa(n \div 10) \o <<Digits[(n % 10) + 1]>>

\* The elements of a list, each already encoded, separated by commas.
RECURSIVE join(_)
join(parts) ==
  IF parts = <<>> THEN <<>>
  ELSE IF Len(parts) = 1 THEN parts[1]
  ELSE parts[1] \o <<",">> \o join(Tail(parts))

enc_ints(l) == <<"[">> \o join([i \in 1 .. Len(l) |-> itoa(l[i])]) \o <<"]">>

enc_strings(l) ==
  <<"[">> \o join([i \in 1 .. Len(l) |-> enc_string(chars(l[i]))]) \o <<"]">>

\* The value of a json.RawMessage is written without its insignificant white
\* space (the documents used here hold no space inside a string).
compact(raw) == SelectSeq(raw, LAMBDA b : b \notin {" ", NL})

\* omitempty: the field is left out when it is the empty string, 0, nil, an
\* empty list or false.
omitted(v, kind) ==
  CASE kind = "string" -> v = ""
    [] kind = "int" -> v = 0
    [] kind = "bool" -> v = FALSE
    [] OTHER -> Len(v) = 0

enc_value(v, kind) ==
  CASE kind = "string" -> enc_string(chars(v))
    [] kind = "int" -> itoa(v)
    [] kind = "intptr" -> itoa(v[1])
    [] kind = "ints" -> enc_ints(v)
    [] kind = "bool" -> <<"t", "r", "u", "e">>
    [] kind = "strings" -> enc_strings(v)
    [] kind = "raw" -> compact(v)

\* The header as the encoder writes it: the object and a newline.
encode_hdr(h) ==
  LET present == SelectSeq(HdrFields, LAMBDA f : ~omitted(h[f.name], f.kind))
      members == [i \in 1 .. Len(present) |->
                    enc_string(present[i].key) \o <<":">>
                      \o enc_value(h[present[i].name], present[i].kind)]
  IN <<"{">> \o join(members) \o <<"}", NL>>

\* The length taken from buf.Len() with the two prefix bytes counted in.
format_pkt_prefixCounted(p) ==
  LET hdr == encode_hdr(p.hdr)
      l == (Len(hdr) + 2) % 65536
  IN <<l \div 256, l % 256>> \o hdr \o p.body

\* pkt.go:69-106: the length of the header in two bytes, big endian, the
\* header, the body.
format_pkt(p) ==
  LET hdr == encode_hdr(p.hdr)
      l == Len(hdr) % 65536
  IN <<l \div 256, l % 256>> \o hdr \o p.body

\* --------------------------------------------- json.NewDecoder(r).Decode
\* The outcome of reading a value that starts at a given byte: the value and
\* the position after it, or a failure.  (Tokens follow each other without
\* white space, as the encoder writes them.)
Fail == [ok |-> FALSE, val |-> 0, next |-> 0]
Ok(v, n) == [ok |-> TRUE, val |-> v, next |-> n]

RECURSIVE skip_space(_, _)
skip_space(b, i) ==
  IF i <= Len(b) /\ b[i] \in {" ", NL} THEN skip_space(b, i + 1) ELSE i

\* The bytes of a string up to its closing quote, escapes undone.
RECURSIVE scan_string(_, _, _)
scan_string(b, j, acc) ==
  IF j > Len(b) THEN Fail
  ELSE IF b[j] = DQ THEN Ok(acc, j + 1)
  ELSE IF b[j] = BS
  THEN (IF j + 1 <= Len(b) /\ b[j + 1] \in {DQ, BS}
        THEN scan_string(b, j + 2, Append(acc, b[j + 1]))
        ELSE Fail)
  ELSE scan_string(b, j + 1, Append(acc, b[j]))

dec_string(b, i) ==
  IF i <= Len(b) /\ b[i] = DQ THEN scan_string(b, i + 1, <<>>) ELSE Fail

IsDigit(c) == \E d \in 1 .. Len(Digits) : Digits[d] = c
DigitVal(c) == (CHOOSE d \in 1 .. Len(Digits) : Digits[d] = c) - 1

RECURSIVE scan_int(_, _, _)
scan_int(b, j, acc) ==
  IF j <= Len(b) /\ IsDigit(b[j])
  THEN scan_int(b, j + 1, (acc * 10) + DigitVal(b[j]))
  ELSE Ok(acc, j)

dec_int(b, i) ==
  IF i <= Len(b) /\ IsDigit(b[i]) THEN scan_int(b, i, 0) ELSE Fail

dec_bool(b, i) ==
  IF i + 3 <= Len(b) /\ SubSeq(b, i, i + 3) = <<"t", "r", "u", "e">>
  THEN Ok(TRUE, i + 4)
  ELSE IF i + 4 <= Len(b) /\ SubSeq(b, i, i + 4) = <<"f", "a", "l", "s", "e">>
  THEN Ok(FALSE, i + 5)
  ELSE Fail

\* The elements of a list of integers or of strings, from the first element.
RECURSIVE dec_elems(_, _, _, _)
dec_elems(b, i, kind, acc) ==
  LET e == IF kind = "ints" THEN dec_int(b, i) ELSE dec_string(b, i)
      v == IF kind = "ints" THEN e.val ELSE str(e.val)
  IN IF ~e.ok \/ e.next > Len(b) THEN Fail
     ELSE IF b[e.next] = "," THEN dec_elems(b, e.next + 1, kind, Append(acc, v))
     ELSE IF b[e.next] = "]" THEN Ok(Append(acc, v), e.next + 1)
     ELSE Fail

dec_list(b, i, kind) ==
  IF i + 1 <= Len(b) /\ b[i] = "["
  THEN (IF b[i + 1] = "]" THEN Ok(<<>>, i + 2) ELSE dec_elems(b, i + 1, kind, <<>>))
  ELSE Fail

\* The end of an object or array entered at depth 1.
RECURSIVE scan_nested(_, _, _)
scan_nested(b, j, depth) ==
  IF j > Len(b) THEN Fail
  ELSE IF b[j] = DQ
  THEN (LET q == scan_string(b, j + 1, <<>>)
        IN IF q.ok THEN scan_nested(b, q.next, depth) ELSE Fail)
  ELSE IF b[j] \in {"{", "["} THEN scan_nested(b, j + 1, depth + 1)
  ELSE IF b[j] \in {"}", "]"}
  THEN (IF depth = 1 THEN Ok(0, j + 1) ELSE scan_nested(b, j + 1, depth - 1))
  ELSE scan_nested(b, j + 1, depth)

\* A json.RawMessage takes the bytes of the value as they are.
dec_raw(b, i) ==
  LET e == IF i > Len(b) THEN Fail
           ELSE IF b[i] \in {"{", "["} THEN scan_nested(b, i + 1, 1)
           ELSE IF b[i] = DQ THEN dec_string(b, i)
           ELSE dec_int(b, i)
  IN IF e.ok THEN Ok(SubSeq(b, i, e.next - 1), e.next) ELSE Fail

dec_value(b, i, kind) ==
  CASE kind = "string" ->
         (LET e == dec_string(b, i) IN IF e.ok THEN Ok(str(e.val), e.next) ELSE Fail)
    [] kind = "int" -> dec_int(b, i)
    [] kind = "intptr" ->
         (LET e == dec_int(b, i) IN IF e.ok THEN Ok(<<e.val>>, e.next) ELSE Fail)
    [] kind = "bool" -> dec_bool(b, i)
    [] kind \in {"ints", "strings"} -> dec_list(b, i, kind)
    [] kind = "raw" -> dec_raw(b, i)

\* The field a key names; the value of a key that names none is skipped.
fieldOf(key) ==
  IF \E k \in 1 .. Len(HdrFields) : HdrFields[k].key = key
  THEN HdrFields[CHOOSE k \in 1 .. Len(HdrFields) : HdrFields[k].key = key]
  ELSE [key |-> key, name |-> "", kind |-> "raw"]

\* The members of the object, from the quote of the first key, stored into h.
RECURSIVE dec_members(_, _, _)
dec_members(b, i, h) ==
  LET k == dec_string(b, i)
      f == fieldOf(k.val)
      v == dec_value(b, k.next + 1, f.kind)
      h2 == IF f.name = "" THEN h ELSE [h EXCEPT ![f.name] = v.val]
  IN IF ~k.ok \/ k.next > Len(b) THEN Fail
     ELSE IF b[k.next] # ":" THEN Fail
     ELSE IF ~v.ok \/ v.next > Len(b) THEN Fail
     ELSE IF b[v.next] = "," THEN dec_members(b, v.next + 1, h2)
     ELSE IF b[v.next] = "}" THEN Ok(h2, v.next + 1)
     ELSE Fail

\* Decode(&pkt.hdr): the fields that are not in the object keep their zero
\* value.
decode_hdr(b) ==
  LET i == skip_space(b, 1)
  IN IF i + 1 > Len(b) THEN Fail
     ELSE IF b[i] # "{" THEN Fail
     ELSE IF b[i + 1] = "}" THEN Ok(zeroHdr, i + 2)
     ELSE dec_members(b, i + 1, zeroHdr)

\* pkt.go:108-148: the error, and the packet when there is none.  A body of
\* length 0 stays nil.
parse_pkt(in) ==
  LET hdr_len == (in[1] * 256) + in[2]
      body_len == Len(in) - (hdr_len + 2)
      d == decode_hdr(SubSeq(in, 3, hdr_len + 2))
      none == mkPkt(zeroHdr, <<>>, "")
  IN IF Len(in) < 4 THEN [err |-> "pkt is too short", pkt |-> none]
     ELSE IF body_len < 0 THEN [err |-> "pkt is too short", pkt |-> none]
     ELSE IF ~d.ok THEN [err |-> "json", pkt |-> none]
     ELSE [err |-> "",
           pkt |-> mkPkt(d.val,
                         IF body_len = 0 THEN <<>>
                         ELSE SubSeq(in, hdr_len + 3, Len(in)),
                         "")]

\* ======================================================= channel buffers
\* Send window of the send buffer (100 in the repository), scaled down.
sndWindow == 2

\* make_channel_snd_buffer: next sequence number and the unacknowledged
\* packets.
make_channel_snd_buffer == [next_seq |-> 1, buf |-> {}]

\* make_channel_rcv_buffer: packets by seq, the next seq to hand out, the
\* close flag.
make_channel_rcv_buffer == [buf |-> {}, next_in_order |-> 1, closed |-> FALSE]

\* make_channel_ack_handler: what was last acknowledged in either direction.
make_channel_ack_handler ==
  [closed |-> FALSE, last_rcv_ack |-> 0, last_ack_sent |-> 0,
   last_miss_sent |-> <<>>, unacked |-> FALSE]

Max(a, b) == IF a >= b THEN a ELSE b

SeqsOf(buf) == {p.hdr.Seq : p \in buf}

\* rcv.put: dropped when closed, when seq < next_in_order or when already
\* buffered; stored otherwise.
rcv_put(rcv, pkt) ==
  IF rcv.closed THEN rcv
  ELSE IF pkt.hdr.Seq < rcv.next_in_order THEN rcv
  ELSE IF pkt.hdr.Seq \in SeqsOf(rcv.buf) THEN rcv
  ELSE [rcv EXCEPT !.buf = @ \cup {pkt}]

\* rcv.get can return a packet: the one with seq = next_in_order is there.
rcv_ready(rcv) == rcv.next_in_order \in SeqsOf(rcv.buf)

rcv_head(rcv) == CHOOSE p \in rcv.buf : p.hdr.Seq = rcv.next_in_order

\* rcv.get, the buffer after the head was taken.
rcv_get(rcv) ==
  [rcv EXCEPT !.buf = @ \ {rcv_head(rcv)}, !.next_in_order = @ + 1]

\* rcv.close
rcv_close(rcv) == [rcv EXCEPT !.closed = TRUE]

\* snd.put can take a packet: the window is not full.
snd_room(snd) == Cardinality(snd.buf) < sndWindow

\* snd.put: the packet with its sequence number.
snd_stamp(snd, pkt) == [pkt EXCEPT !.hdr.Seq = snd.next_seq]

\* snd.put: the buffer holding the packet.
snd_put(snd, pkt) ==
  [next_seq |-> snd.next_seq + 1, buf |-> snd.buf \cup {pkt}]

\* snd.remove_up_to(a)
snd_remove_up_to(snd, a) == [snd EXCEPT !.buf = {p \in @ : p.hdr.Seq > a}]

\* ============================================================ ack engine
\* Highest contiguous sequence number received.
RECURSIVE contiguous(_, _)
contiguous(k, seqs) == IF (k + 1) \in seqs THEN contiguous(k + 1, seqs) ELSE k

last_rcv_seq(rcv) == contiguous(rcv.next_in_order - 1, SeqsOf(rcv.buf))

\* The gaps between last_rcv_seq and the highest seq received, ascending.
RECURSIVE ascending(_, _, _)
ascending(lo, hi, S) ==
  IF lo > hi THEN <<>>
  ELSE (IF lo \in S THEN <<lo>> ELSE <<>>) \o ascending(lo + 1, hi, S)

MaxOf(S) == CHOOSE x \in S : \A y \in S : y <= x

missing(rcv) ==
  IF SeqsOf(rcv.buf) = {} THEN <<>>
  ELSE ascending(last_rcv_seq(rcv) + 1, MaxOf(SeqsOf(rcv.buf)),
                 (1 .. MaxOf(SeqsOf(rcv.buf))) \ SeqsOf(rcv.buf))

\* ack.add_ack_info: ack and miss are stamped on an outgoing packet when they
\* differ from what was sent last; nothing before any data was received.
ack_stamps(c) ==
  /\ last_rcv_seq(c.rcv) > 0
  /\ \/ last_rcv_seq(c.rcv) # c.ack.last_ack_sent
     \/ missing(c.rcv) # c.ack.last_miss_sent

add_ack_info_pkt(c, pkt) ==
  IF ack_stamps(c)
  THEN [pkt EXCEPT !.hdr.Ack = <<last_rcv_seq(c.rcv)>>, !.hdr.Miss = missing(c.rcv)]
  ELSE pkt

add_ack_info(c) ==
  IF ack_stamps(c)
  THEN [c.ack EXCEPT !.last_ack_sent = last_rcv_seq(c.rcv),
                     !.last_miss_sent = missing(c.rcv),
                     !.unacked = FALSE]
  ELSE c.ack

\* ack.received_packet: an acknowledgement is due.
received_packet(ack) == [ack EXCEPT !.unacked = TRUE]

\* ack.close
ack_close(ack) == [ack EXCEPT !.closed = TRUE]

\* ack.handle_ack_info: with ack = A the entries with seq <= A leave the send
\* buffer and last_rcv_ack = max(last_rcv_ack, A); the seqs of miss still in
\* the send buffer are handed to the line layer again.  Returns the channel.
handle_ack_info(c, pkt) ==
  IF pkt.hdr.Ack = <<>> THEN c
  ELSE [c EXCEPT !.snd = snd_remove_up_to(@, pkt.hdr.Ack[1]),
                 !.ack.last_rcv_ack = Max(@, pkt.hdr.Ack[1])]

\* The packets handle_ack_info retransmits.
retransmitted(c, pkt) ==
  IF pkt.hdr.Ack = <<>> THEN {}
  ELSE {p \in c.snd.buf : p.hdr.Seq > pkt.hdr.Ack[1] /\ p.hdr.Seq \in Range(pkt.hdr.Miss)}

\* ==================================================== channel controller
ChanIds == {"c1", "c2"}
\* The id make_rand gives the locally opened channel; the other id is chosen
\* by the remote opener.
LocalId == "c2"
RemoteId == "c1"
PeerA == "A"
NoChannel == [id |-> ""]

\* controller_channel.go:111-122
make_channel(peer) ==
  [id |-> "", peer |-> peer, channel_type |-> "",
   snd |-> make_channel_snd_buffer,
   rcv |-> make_channel_rcv_buffer,
   ack |-> make_channel_ack_handler]

\* controller_channel.go:97-102, between Lock and Unlock.
add_channel(reg, c) == reg \cup {c.id}

\* controller_channel.go:104-109, between Lock and Unlock.  Nothing in
\* controller_channel.go or switch.go calls it.
drop_channel(reg, c) == reg \ {c.id}

\* controller_channel.go:141-161: the channel after send, the packet handed
\* to the line layer (none when snd.put fails) and the error returned.
\* lineOk is the outcome of _snd_pkt.
send(c, pkt0, lineOk) ==
  LET marked == [pkt0 EXCEPT !.hdr.C = c.id]
  IN IF ~snd_room(c.snd)
     THEN [chan |-> c, sent |-> {}, err |-> "WouldBlock"]
     ELSE LET stamped == add_ack_info_pkt(c, snd_stamp(c.snd, marked))
              c2 == [c EXCEPT !.snd = snd_put(@, stamped), !.ack = add_ack_info(c)]
          IN [chan |-> c2, sent |-> {stamped},
              err |-> IF lineOk THEN "" ELSE "line"]

\* controller_channel.go:132-139 (the outcome of _snd_pkt only shows in the
\* error returned, which no caller reads).
close_with_error(c, err_message) ==
  LET r == send(c, mkPkt([zeroHdr EXCEPT !.End = TRUE, !.Err = err_message],
                         <<>>, ""), TRUE)
  IN [chan |-> [r.chan EXCEPT !.ack = ack_close(@), !.rcv = rcv_close(@)],
      sent |-> r.sent, err |-> r.err]

\* controller_channel.go:128-130
close(c) == close_with_error(c, "")

\* The ack fields of a pure ack left aside: line 199 reached only by packets
\* that are not pure acks.
take_pkt_dataOnly(c, pkt) ==
  IF ~JustAck(pkt)
  THEN handle_ack_info([c EXCEPT !.rcv = rcv_put(@, pkt),
                                 !.ack = received_packet(@)], pkt)
  ELSE c

\* The test of line 194 turned around.
take_pkt_inverted(c, pkt) ==
  LET c1 == IF JustAck(pkt)
            THEN [c EXCEPT !.rcv = rcv_put(@, pkt), !.ack = received_packet(@)]
            ELSE c
  IN handle_ack_info(c1, pkt)

\* controller_channel.go:194-199: the known channel takes the packet.
take_pkt(c, pkt) ==
  LET c1 == IF ~JustAck(pkt)
            THEN [c EXCEPT !.rcv = rcv_put(@, pkt), !.ack = received_packet(@)]
            ELSE c
  IN handle_ack_info(c1, pkt)

\* controller_channel.go:203-206: the channel made for a packet with an
\* unknown id and a type.
made_channel(pkt) ==
  [make_channel(pkt.peer) EXCEPT !.id = pkt.hdr.C, !.channel_type = pkt.hdr.Type]

\* controller_channel.go:214-215: the new channel takes its first packet.
first_pkt(c, pkt) ==
  [c EXCEPT !.rcv = rcv_put(@, pkt), !.ack = received_packet(@)]

\* controller_channel.go:202-220: the channel a packet with an unknown id and
\* a type opens, after it took the packet.
new_channel(pkt) == first_pkt(made_channel(pkt), pkt)

ChanInit ==
  /\ channels = {}
  /\ chan = [id \in ChanIds |-> NoChannel]
  /\ handler = [id \in ChanIds |-> "none"]
  /\ wire = {}
  /\ delivered = [id \in ChanIds |-> <<>>]
  /\ offered = [id \in ChanIds |->
                 [seqs |-> {}, ahead |-> FALSE, dup |-> FALSE, late |-> FALSE]]

Tasks == {"net", "user", "stop"}
NoPkt == mkPkt(zeroHdr, <<>>, "")

TaskInit ==
  /\ pc = [t \in Tasks |-> "idle"]
  /\ mtx = "free"
  /\ cur = NoPkt
  /\ todo = {}
  /\ fault = "none"

\* Nothing formatted, nothing parsed.
NoResult == [err |-> "none", pkt |-> NoPkt]

CodecInit ==
  /\ outPkt = [given |-> FALSE, pkt |-> NoPkt]
  /\ data = <<>>
  /\ inPkt = NoResult

Init == TableInit /\ ChanInit /\ TaskInit /\ CodecInit

\* ------------------------------------------------- routing table actions
\* Largest lookup width asked of findKey.
MaxN == 2

\* The record of the last call: its name, its hashname (or key) argument,
\* its second argument and what it returned.  With h = FALSE only the fact
\* that some call was made is recorded.
noOp == [op |-> "init", hn |-> 0, arg |-> 0, out |-> <<>>]

record(h, op, hn, arg, out) ==
  lastOp' = IF h THEN [op |-> op, hn |-> hn, arg |-> arg, out |-> out] ELSE noOp

\* Lookups are read-only, so a lookup that follows a lookup reaches nothing
\* that a single lookup does not: the environment makes one at a time.
FindKey ==
  \E key \in Hashnames, n \in 0 .. MaxN :
    /\ lastOp.op # "findKey"
    /\ record(TRUE, "findKey", key, n, findKey(key, n))
    /\ UNCHANGED <<localHashname, buckets, released, nextTag>>
    /\ UNCHANGED <<cvars, svars, kvars>>

NextCandidate(h) ==
  /\ nextCandidate
  /\ record(h, "nextCandidate", 0, 0, nextCandidateResult)
  /\ UNCHANGED <<localHashname, released, nextTag>>
  /\ UNCHANGED <<cvars, svars, kvars>>

\* Every call passes a fresh tag.
ActivatePeer(h) ==
  \E hn \in Inputs :
    /\ nextTag <= MaxTags
    /\ activatePeer(hn, nextTag)
    /\ nextTag' = nextTag + 1
    /\ record(h, "activatePeer", hn, nextTag, <<>>)
    /\ UNCHANGED localHashname
    /\ UNCHANGED <<cvars, svars, kvars>>

DeactivatePeer(h) ==
  \E hn \in Inputs :
    /\ deactivatePeer(hn)
    /\ record(h, "deactivatePeer", hn, 0, <<>>)
    /\ UNCHANGED <<localHashname, nextTag>>
    /\ UNCHANGED <<cvars, svars, kvars>>

AddCandidate(h, R) ==
  \E hn \in Inputs, router \in R :
    /\ addCandidate(hn, router)
    /\ record(h, "addCandidate", hn, router, <<>>)
    /\ UNCHANGED <<localHashname, released, nextTag>>
    /\ UNCHANGED <<cvars, svars, kvars>>

\* The routing table under every sequence of its four mutating operations,
\* every candidate being introduced by the same router.
Next ==
  \/ NextCandidate(TRUE)
  \/ ActivatePeer(TRUE)
  \/ DeactivatePeer(TRUE)
  \/ AddCandidate(TRUE, {1})

Spec == Init /\ [][Next]_vars

\* Lookups between the mutating operations; only the lookups are recorded.
NextFind ==
  \/ NextCandidate(FALSE)
  \/ ActivatePeer(FALSE)
  \/ DeactivatePeer(FALSE)
  \/ AddCandidate(FALSE, {1})
  \/ FindKey

SpecFind == Init /\ [][NextFind]_vars

\* The same operations with candidates introduced by several routers.
NextRouters ==
  \/ NextCandidate(FALSE)
  \/ ActivatePeer(FALSE)
  \/ DeactivatePeer(FALSE)
  \/ AddCandidate(FALSE, Routers)

SpecRouters == Init /\ [][NextRouters]_vars

\* ============================================== channel controller actions
\* Number of data packets the remote peer sends on a channel.
MaxSeq == 3
\* Sequence numbers the local side may use up on a channel.
MaxSent == 3

\* The k-th data packet of the remote peer on channel id; the first packet on
\* the channel it opens carries the type.
dataPkt(id, k) ==
  mkPkt([zeroHdr EXCEPT !.C = id, !.Seq = k,
                        !.Type = IF k = 1 /\ id = RemoteId THEN "t" ELSE ""],
        <<k>>, PeerA)

\* A pure ack of the remote peer.
ackPkt(id, a) == mkPkt([zeroHdr EXCEPT !.C = id, !.Ack = <<a>>], <<>>, PeerA)

InPkts ==
  {dataPkt(id, k) : id \in ChanIds \cup {""}, k \in 1 .. MaxSeq}
    \cup {ackPkt(id, a) : id \in ChanIds, a \in 1 .. MaxSent}

\* The packets that may arrive now.  The layer is followed one channel at a
\* time: the remote peer opens its channel, and the local user opens theirs,
\* only while the registry holds no other channel.  Packets with the id of
\* the channel that does not exist keep arriving.
Arriving == {p \in InPkts : p.hdr.Type # "" => channels \subseteq {p.hdr.C}}

\* What the open receive buffer of a channel is offered; late: a packet was
\* passed to the buffers or the ack engine of the channel after it was closed.
offer(o, c, pkt) ==
  IF c.rcv.closed THEN [o EXCEPT !.late = TRUE]
  ELSE IF JustAck(pkt) THEN o
  ELSE [o EXCEPT !.seqs = @ \cup {pkt.hdr.Seq},
                 !.ahead = @ \/ pkt.hdr.Seq > c.rcv.next_in_order,
                 !.dup = @ \/ pkt.hdr.Seq \in o.seqs]

\* controller_channel.go:176-200: rcv_channel_pkt(pkt).
rcv_channel_pkt(pkt) ==
  LET id == pkt.hdr.C IN
    /\ UNCHANGED delivered
    /\ IF id = ""
       THEN UNCHANGED <<channels, chan, handler, wire, offered>>
       ELSE IF id \in channels
       THEN /\ chan' = [chan EXCEPT ![id] = take_pkt(@, pkt)]
            /\ wire' = wire \cup retransmitted(chan[id], pkt)
            /\ offered' = [offered EXCEPT ![id] = offer(@, chan[id], pkt)]
            /\ UNCHANGED <<channels, handler>>
       ELSE IF pkt.hdr.Type # ""
       THEN /\ chan' = [chan EXCEPT ![id] = new_channel(pkt)]
            /\ channels' = add_channel(channels, new_channel(pkt))
            /\ handler' = [handler EXCEPT ![id] = "running"]
            /\ offered' = [offered EXCEPT ![id] = offer(@, make_channel(pkt.peer), pkt)]
            /\ UNCHANGED wire
       ELSE UNCHANGED <<channels, chan, handler, wire, offered>>

RcvChannelPkt ==
  \E pkt \in Arriving :
    /\ rcv_channel_pkt(pkt)
    /\ UNCHANGED <<tvars, kvars, svars>>

\* controller_channel.go:72-95 (called by Switch.Open, switch.go:94-104)
OpenChannel ==
  \E lineOk \in BOOLEAN :
    LET c0 == [make_channel(PeerA) EXCEPT !.id = LocalId]
        r == send(c0, mkPkt([zeroHdr EXCEPT !.Type = "t"], <<>>, ""), lineOk)
        cl == close(r.chan)
    IN /\ channels = {}
       /\ channels' = add_channel(channels, c0)
       /\ IF r.err = ""
          THEN /\ chan' = [chan EXCEPT ![LocalId] = r.chan]
               /\ wire' = wire \cup r.sent
               /\ handler' = [handler EXCEPT ![LocalId] = "user"]
          ELSE /\ chan' = [chan EXCEPT ![LocalId] = cl.chan]
               /\ wire' = wire \cup r.sent \cup cl.sent
               /\ UNCHANGED handler
       /\ UNCHANGED <<tvars, kvars, svars, delivered, offered>>

\* The task that holds channel id: the handler of a remote-opened channel
\* while it runs, the caller of Open for a locally opened one.
Held(id) == handler[id] \in {"running", "user"}

\* switch.go:110-124, controller_channel.go:141-161
Send ==
  \E id \in ChanIds :
    LET r == send(chan[id], mkPkt(zeroHdr, <<0>>, ""), TRUE)
    IN /\ Held(id)
       /\ chan[id].snd.next_seq < MaxSent
       /\ chan' = [chan EXCEPT ![id] = r.chan]
       /\ wire' = wire \cup r.sent
       /\ UNCHANGED <<tvars, kvars, svars, channels, handler, delivered, offered>>

\* switch.go:126-140, controller_channel.go:163-174: a call that returns a
\* packet.  (A call on a closed, drained buffer returns Closed and changes
\* nothing.)
Receive ==
  \E id \in ChanIds :
    /\ Held(id)
    /\ rcv_ready(chan[id].rcv)
    /\ delivered' = [delivered EXCEPT ![id] = Append(@, rcv_head(chan[id].rcv))]
    /\ chan' = [chan EXCEPT ![id].rcv = rcv_get(@)]
    /\ UNCHANGED <<tvars, kvars, svars, channels, handler, wire, offered>>

\* switch.go:106-108, controller_channel.go:128-139
Close ==
  \E id \in ChanIds :
    LET r == close(chan[id])
    IN /\ Held(id)
       /\ chan[id].snd.next_seq <= MaxSent
       /\ chan' = [chan EXCEPT ![id] = r.chan]
       /\ wire' = wire \cup r.sent
       /\ UNCHANGED <<tvars, kvars, svars, channels, handler, delivered, offered>>

\* The deferred function without its recover branch: a plain close however
\* the handler ended.
run_user_handler_plain(c, panicked) == close(c)

\* controller_channel.go:223-231: the deferred function of run_user_handler,
\* run when the handler has returned or panicked.
run_user_handler(c, panicked) ==
  IF panicked
  THEN close_with_error(c, "internal server error")
  ELSE close(c)

\* controller_channel.go:222-234: the handler returns or panics; a panic is
\* recovered at the end of the task.
RunUserHandlerEnd ==
  \E id \in ChanIds, panicked \in BOOLEAN :
    LET r == run_user_handler(chan[id], panicked)
    IN /\ handler[id] = "running"
       /\ handler' = [handler EXCEPT ![id] = IF panicked THEN "recovered" ELSE "done"]
       /\ chan' = [chan EXCEPT ![id] = r.chan]
       /\ wire' = wire \cup r.sent
       /\ UNCHANGED <<tvars, kvars, svars, channels, delivered, offered>>

NextChan ==
  \/ RcvChannelPkt
  \/ OpenChannel
  \/ Send
  \/ Receive
  \/ Close
  \/ RunUserHandlerEnd

\* The channel layer is followed under one local hashname.
InitChan == Init /\ localHashname = 0

SpecChan == InitChan /\ [][NextChan]_vars

\* ------------------------------------------------ acknowledgements coming in
\* The packets of the remote peer that carry an ack: pure acks, and its
\* second data packet with an ack on it.
AckPkts ==
  {ackPkt(id, a) : id \in ChanIds, a \in 1 .. MaxSent}
    \cup {[dataPkt(id, 2) EXCEPT !.hdr.Ack = <<a>>] : id \in ChanIds, a \in 1 .. MaxSent}

\* The remote peer acknowledges only sequence numbers that were sent to it.
AckArriving ==
  {p \in AckPkts : /\ p.hdr.C \in channels
                   /\ p.hdr.Ack[1] < chan[p.hdr.C].snd.next_seq}
    \cup {p \in {dataPkt(RemoteId, 1)} : channels \subseteq {RemoteId}}

\* rcv_channel_pkt with a record of the call: the ack of the packet (0 when
\* it has none), the channel id and the packet, and a mark that changes with
\* every call.
RcvRecorded ==
  \E pkt \in AckArriving :
    /\ rcv_channel_pkt(pkt)
    /\ lastOp' = [op |-> "rcv_channel_pkt",
                  hn |-> 1 - lastOp.hn,
                  arg |-> IF pkt.hdr.Ack = <<>> THEN 0 ELSE pkt.hdr.Ack[1],
                  out |-> <<pkt.hdr.C, pkt>>]
    /\ UNCHANGED <<localHashname, buckets, released, nextTag, svars, kvars>>

NextAck ==
  \/ RcvRecorded
  \/ OpenChannel
  \/ Send
  \/ Receive
  \/ Close
  \/ RunUserHandlerEnd

SpecAck == InitChan /\ [][NextAck]_vars


\* ------------------------------------------------ packets of a second peer
\* The hashname of a peer other than the one the channels are opened with.
PeerB == "B"

\* What arrives when two peers send: the packets of the remote peer, and
\* the same packets on the lines of the other peer, which the line layer
\* marks with that peer's hashname; the other peer opens no channel.
PeerArriving ==
  AckArriving \cup {[p EXCEPT !.peer = PeerB] : p \in {q \in AckArriving : q.hdr.Type = ""}}

\* rcv_channel_pkt with a record of the call, as RcvRecorded, for the
\* packets of both peers.
RcvFromPeers ==
  \E pkt \in PeerArriving :
    /\ rcv_channel_pkt(pkt)
    /\ lastOp' = [op |-> "rcv_channel_pkt",
                  hn |-> 1 - lastOp.hn,
                  arg |-> IF pkt.hdr.Ack = <<>> THEN 0 ELSE pkt.hdr.Ack[1],
                  out |-> <<pkt.hdr.C, pkt>>]
    /\ UNCHANGED <<localHashname, buckets, released, nextTag, svars, kvars>>

NextPeers ==
  \/ RcvFromPeers
  \/ OpenChannel
  \/ Send
  \/ Receive
  \/ Close
  \/ RunUserHandlerEnd

SpecPeers == InitChan /\ [][NextPeers]_vars


\* ================================================== tasks of the controller
\* The line task hands rcv_channel_pkt one packet after the other, a user
\* task calls open_channel, and a task stops the switch, which runs
\* _close_channels.  The handlers of remote-opened channels keep running.
\* The packets that arrive while the tasks are followed.
TaskPkts == {dataPkt(RemoteId, 1), dataPkt(RemoteId, 2), ackPkt(LocalId, 1)}

goto(t, l) == pc' = [pc EXCEPT ![t] = l]

\* The tasks inside the assignment of add_channel (line 101).
Writers == {t \in Tasks : pc[t] = "writing"}

\* The id of the channel task t is adding.
Adding(t) == IF t = "net" THEN cur.hdr.C ELSE LocalId

\* controller_channel.go:176-183: rcv_channel_pkt is entered.
NetArrive ==
  \E pkt \in TaskPkts :
    /\ fault # "crashed"
    /\ pc["net"] = "idle"
    /\ cur' = pkt
    /\ goto("net", "lookup")
    /\ UNCHANGED <<tvars, kvars, cvars, mtx, todo, fault>>

\* Where rcv_channel_pkt goes on after the lookup (lines 186-192).
after_lookup(found) ==
  IF found THEN "take" ELSE IF cur.hdr.Type # "" THEN "make" ELSE "idle"

\* controller_channel.go:184: h.channels is read without the mutex.  A read
\* that falls into a write of the map is a data race: the runtime may stop
\* the program, the entry may be missed, and the entry being written may or
\* may not be seen.
NetLookup ==
  LET id == cur.hdr.C
      seen == {FALSE} \cup
              {TRUE : t \in {w \in Writers : Adding(w) = id \/ id \in channels}}
  IN /\ fault # "crashed"
     /\ pc["net"] = "lookup"
     /\ IF Writers = {}
        THEN /\ goto("net", after_lookup(id \in channels))
             /\ UNCHANGED fault
        ELSE \/ /\ fault' = "crashed"
                /\ UNCHANGED pc
             \/ /\ fault' = "raced"
                /\ \E found \in seen : goto("net", after_lookup(found))
     /\ UNCHANGED <<tvars, kvars, cvars, mtx, cur, todo>>

\* controller_channel.go:194-199
NetTake ==
  LET id == cur.hdr.C
  IN /\ fault # "crashed"
     /\ pc["net"] = "take"
     /\ chan' = [chan EXCEPT ![id] = take_pkt(@, cur)]
     /\ wire' = wire \cup retransmitted(chan[id], cur)
     /\ offered' = [offered EXCEPT ![id] = offer(@, chan[id], cur)]
     /\ goto("net", "idle")
     /\ UNCHANGED <<tvars, kvars, channels, handler, delivered, mtx, cur, todo, fault>>

\* controller_channel.go:203-207: rcv_new_channel_pkt makes the channel.
NetMake ==
  /\ fault # "crashed"
  /\ pc["net"] = "make"
  /\ chan' = [chan EXCEPT ![cur.hdr.C] = made_channel(cur)]
  /\ goto("net", "add_lock")
  /\ UNCHANGED <<tvars, kvars, channels, handler, wire, delivered, offered,
                 mtx, cur, todo, fault>>

\* controller_channel.go:98: add_channel takes the mutex and starts on the
\* assignment of line 101.
AddLock ==
  \E t \in {"net", "user"} :
    /\ fault # "crashed"
    /\ pc[t] = "add_lock"
    /\ mtx = "free"
    /\ mtx' = t
    /\ goto(t, "writing")
    /\ UNCHANGED <<tvars, kvars, cvars, cur, todo, fault>>

\* controller_channel.go:99-101: the assignment is done and the deferred
\* Unlock runs.
AddUnlock ==
  \E t \in {"net", "user"} :
    /\ fault # "crashed"
    /\ pc[t] = "writing"
    /\ channels' = add_channel(channels, chan[Adding(t)])
    /\ mtx' = "free"
    /\ goto(t, IF t = "net" THEN "serve" ELSE "send")
    /\ UNCHANGED <<tvars, kvars, chan, handler, wire, delivered, offered,
                   cur, todo, fault>>

\* controller_channel.go:210-219: the handler task is started and the channel
\* takes its first packet.
NetServe ==
  LET id == cur.hdr.C
  IN /\ fault # "crashed"
     /\ pc["net"] = "serve"
     /\ handler' = [handler EXCEPT ![id] = "running"]
     /\ chan' = [chan EXCEPT ![id] = first_pkt(@, cur)]
     /\ offered' = [offered EXCEPT ![id] = offer(@, chan[id], cur)]
     /\ goto("net", "idle")
     /\ UNCHANGED <<tvars, kvars, channels, wire, delivered, mtx, cur, todo, fault>>

\* controller_channel.go:72-79: open_channel makes its channel.
UserOpen ==
  /\ fault # "crashed"
  /\ pc["user"] = "idle"
  /\ chan' = [chan EXCEPT ![LocalId] = [make_channel(PeerA) EXCEPT !.id = LocalId]]
  /\ goto("user", "add_lock")
  /\ UNCHANGED <<tvars, kvars, channels, handler, wire, delivered, offered,
                 mtx, cur, todo, fault>>

\* controller_channel.go:88-94: open_channel sends the opening packet.
UserSend ==
  \E lineOk \in BOOLEAN :
    LET r == send(chan[LocalId], mkPkt([zeroHdr EXCEPT !.Type = "t"], <<>>, ""),
                  lineOk)
        cl == close(r.chan)
    IN /\ fault # "crashed"
       /\ pc["user"] = "send"
       /\ IF r.err = ""
          THEN /\ chan' = [chan EXCEPT ![LocalId] = r.chan]
               /\ wire' = wire \cup r.sent
               /\ handler' = [handler EXCEPT ![LocalId] = "user"]
          ELSE /\ chan' = [chan EXCEPT ![LocalId] = cl.chan]
               /\ wire' = wire \cup r.sent \cup cl.sent
               /\ UNCHANGED handler
       /\ goto("user", "done")
       /\ UNCHANGED <<tvars, kvars, channels, delivered, offered, mtx, cur, todo, fault>>

\* switch.go:110-124, controller_channel.go:141-161: the user task sends a
\* data packet on the channel it opened.
UserData ==
  LET r == send(chan[LocalId], mkPkt(zeroHdr, <<0>>, ""), TRUE)
  IN /\ fault # "crashed"
     /\ pc["user"] = "done"
     /\ handler[LocalId] = "user"
     /\ chan[LocalId].snd.next_seq < MaxSent
     /\ chan' = [chan EXCEPT ![LocalId] = r.chan]
     /\ wire' = wire \cup r.sent
     /\ UNCHANGED <<tvars, kvars, svars, channels, handler, delivered, offered>>

\* controller_channel.go:48: _close_channels takes the mutex.
StopLock ==
  /\ fault # "crashed"
  /\ pc["stop"] = "idle"
  /\ mtx = "free"
  /\ mtx' = "stop"
  /\ todo' = channels
  /\ goto("stop", "range")
  /\ UNCHANGED <<tvars, kvars, cvars, cur, fault>>

\* controller_channel.go:51: the loop over h.channels goes on to an entry,
\* or ends and the deferred Unlock of line 49 runs.
StopRange ==
  /\ fault # "crashed"
  /\ pc["stop"] = "range"
  /\ IF todo = {}
     THEN mtx' = "free" /\ goto("stop", "done")
     ELSE UNCHANGED mtx /\ goto("stop", "closing")
  /\ UNCHANGED <<tvars, kvars, cvars, cur, todo, fault>>

\* controller_channel.go:52: one entry, in the order the map yields them.
StopClose ==
  \E id \in todo :
    LET r == close_with_error(chan[id], "switch was terminated")
    IN /\ fault # "crashed"
       /\ pc["stop"] = "closing"
       /\ chan' = [chan EXCEPT ![id] = r.chan]
       /\ wire' = wire \cup r.sent
       /\ todo' = todo \ {id}
       /\ goto("stop", "range")
       /\ UNCHANGED <<tvars, kvars, channels, handler, delivered, offered,
                      mtx, cur, fault>>

NextTasks ==
  \/ NetArrive
  \/ NetLookup
  \/ NetTake
  \/ NetMake
  \/ AddLock
  \/ AddUnlock
  \/ NetServe
  \/ UserOpen
  \/ UserSend
  \/ UserData
  \/ StopLock
  \/ StopRange
  \/ StopClose

SpecTasks == InitChan /\ [][NextTasks]_vars


\* ============================================================ codec actions
\* The packets given to format_pkt: every kind of header field empty and
\* set, strings that need escaping, numbers of one and two digits, a custom
\* header as Channel.Send makes it with json.Marshal (switch.go:113-118),
\* and bodies that are empty, plain, and that look like JSON.
CodecHdrs ==
  {[zeroHdr EXCEPT !.Type = ty, !.C = c, !.Seq = sq, !.Ack = ak, !.Miss = ms,
                   !.End = en, !.Err = er, !.See = se, !.Custom = cu] :
     ty \in {"", "t"}, c \in {"", "c1"}, sq \in {0, 12},
     ak \in {<<>>, <<0>>, <<7>>}, ms \in {<<>>, <<1, 10>>}, en \in BOOLEAN,
     er \in {"", "q\"", "a\\"}, se \in {<<>>, <<"t", "c1">>},
     cu \in {<<>>, <<"{", DQ, "a", DQ, ":", "1", "}">>}}

CodecBodies == {<<>>, <<"x">>, <<"{", DQ>>}

\* Datagrams that format_pkt did not write: three bytes, a header length
\* past the end, a header that is no JSON, and the empty object.
Datagrams ==
  {<<0, 2, "{">>, <<0, 9, "{", "}">>, <<0, 2, "{", "x">>, <<0, 2, "{", "}">>}

\* pkt.go:69-106: one packet is formatted.
FormatPkt ==
  \E h \in CodecHdrs, body \in CodecBodies :
    /\ data = <<>>
    /\ outPkt' = [given |-> TRUE, pkt |-> mkPkt(h, body, PeerA)]
    /\ data' = format_pkt(mkPkt(h, body, PeerA))
    /\ inPkt' = NoResult
    /\ UNCHANGED <<tvars, cvars, svars>>

\* pkt.go:108-148: the datagram that format_pkt wrote is parsed.
ParsePkt ==
  /\ outPkt.given
  /\ inPkt = NoResult
  /\ inPkt' = parse_pkt(data)
  /\ UNCHANGED <<tvars, cvars, svars, outPkt, data>>

\* pkt.go:108-148: a datagram from elsewhere is parsed.
ParseDatagram ==
  \E in \in Datagrams :
    /\ data = <<>>
    /\ outPkt' = [given |-> FALSE, pkt |-> NoPkt]
    /\ data' = in
    /\ inPkt' = parse_pkt(in)
    /\ UNCHANGED <<tvars, cvars, svars>>

NextCodec ==
  \/ FormatPkt
  \/ ParsePkt
  \/ ParseDatagram

SpecCodec == InitChan /\ [][NextCodec]_vars

\* ================================================================ claims
BucketIds == 0 .. (numBuckets - 1)

\* C1: in every bucket a hashname is in at most one of peers, candidates
\* and pending.
C1_Exclusive ==
  \A i \in BucketIds :
    /\ Names(buckets[i].peers) \cap Names(buckets[i].candidates) = {}
    /\ Names(buckets[i].peers) \cap Names(buckets[i].pending) = {}
    /\ Names(buckets[i].candidates) \cap Names(buckets[i].pending) = {}

\* C2: every bucket satisfies |peers| + |pending| <= maxPeers.
C2_PeersPlusPending ==
  \A i \in BucketIds :
    Len(buckets[i].peers) + Len(buckets[i].pending) <= maxPeers

\* The active entries that hold tag t, as (bucket, index) pairs.
Holders(t) ==
  {<<i, j>> \in BucketIds \X (1 .. Pow2(KeyBits)) :
     j <= Len(buckets[i].peers) /\ buckets[i].peers[j].tag = t}

\* C3: every tag passed to activatePeer is either held by exactly one active
\* entry and not released, or held by none and released exactly once; a tag
\* not yet passed is neither held nor released.
C3_TagOwnership ==
  \A t \in Tags :
    IF t < nextTag
    THEN \/ Cardinality(Holders(t)) = 1 /\ released[t] = 0
         \/ Cardinality(Holders(t)) = 0 /\ released[t] = 1
    ELSE Cardinality(Holders(t)) = 0 /\ released[t] = 0

\* All tags were passed; one was refused by a full bucket (released while the
\* bucket holds maxPeers others) and the last call replaced or stored a tag.
C3_Witness ==
  /\ nextTag > MaxTags
  /\ \E t \in Tags : released[t] = 1
  /\ \E t \in Tags : Cardinality(Holders(t)) = 1
  /\ \E i \in BucketIds : Len(buckets[i].peers) = maxPeers
  /\ lastOp.op = "activatePeer" /\ released[lastOp.arg] = 1
  /\ lastOp.hn # localHashname

\* The entries of bucket i that are candidatePeer values.
CandidateEntries(i) == Range(buckets[i].candidates) \cup Range(buckets[i].pending)

\* C9: every bucket holds at most maxPeers active peers and at most
\* maxCandidates candidates, and every candidate carries at most
\* maxRoutersPerCandidate routers.
C9_Capacity ==
  \A i \in BucketIds :
    /\ Len(buckets[i].peers) <= maxPeers
    /\ Len(buckets[i].candidates) <= maxCandidates
    /\ \A c \in CandidateEntries(i) : Len(c.routers) <= maxRoutersPerCandidate

\* A bucket at each of the three capacities, with one more hashname known in
\* that bucket than it can hold.
C9_Witness ==
  \E i \in BucketIds :
    /\ Len(buckets[i].peers) = maxPeers
    /\ Len(buckets[i].candidates) = maxCandidates
    /\ \E c \in Range(buckets[i].candidates) :
         Len(c.routers) = maxRoutersPerCandidate
    /\ Cardinality(Names(buckets[i].peers) \cup Names(buckets[i].candidates)
                   \cup Names(buckets[i].pending)) > maxPeers

AllNames ==
  UNION {Names(buckets[i].peers) \cup Names(buckets[i].candidates)
           \cup Names(buckets[i].pending) : i \in BucketIds}

\* C10: the local hashname is in no list of any bucket; addCandidate,
\* activatePeer and deactivatePeer called with the local hashname leave every
\* bucket unchanged, and activatePeer(local, tag) releases tag.
C10_SelfExclusion ==
  /\ [](localHashname \notin AllNames)
  /\ [][(lastOp'.hn = localHashname
          /\ lastOp'.op \in {"addCandidate", "activatePeer", "deactivatePeer"})
        => /\ buckets' = buckets
           /\ lastOp'.op = "activatePeer"
                => released' = [released EXCEPT ![lastOp'.arg] = 1]
           /\ lastOp'.op # "activatePeer" => released' = released]_vars

\* activatePeer(local, tag) was just called on a table with peers in it.
C10_Witness ==
  /\ lastOp.op = "activatePeer"
  /\ lastOp.hn = localHashname
  /\ released[lastOp.arg] = 1
  /\ \E i \in BucketIds : Len(buckets[i].peers) > 0 /\ Len(buckets[i].candidates) > 0

\* The router list of candidate hn in its bucket, <<>> when hn is no candidate.
CandRouters(hn) ==
  LET idx == bucketFromDistance(distance(localHashname, hn))
  IN IF idx >= 0 /\ IndexOf(buckets[idx].candidates, hn) > 0
     THEN buckets[idx].candidates[IndexOf(buckets[idx].candidates, hn)].routers
     ELSE <<>>

NoDuplicates(s) == \A i, j \in 1 .. Len(s) : s[i] = s[j] => i = j

\* The merge the claim describes: unchanged when router is present or the
\* list is full, router appended at the end otherwise.
StatedMerge(routers, router) ==
  IF router \in Range(routers) THEN routers
  ELSE IF Len(routers) < maxRoutersPerCandidate THEN Append(routers, router)
  ELSE routers

\* C7: addCandidate(hn, router) on an hn that is already a candidate leaves
\* the router list unchanged when router is in it or it is full, and appends
\* router otherwise; a router list never holds the same hashname twice.
C7_RouterMerge ==
  /\ [](\A i \in BucketIds : \A c \in CandidateEntries(i) : NoDuplicates(c.routers))
  /\ [][\A hn \in Inputs, router \in Routers :
          (/\ CandRouters(hn) # <<>>
           /\ addCandidate(hn, router)
           /\ UNCHANGED <<localHashname, released, nextTag>>)
          => CandRouters(hn)' = StatedMerge(CandRouters(hn), router)]_vars

\* The hashnames of all active peers of the table.
Active == UNION {Names(buckets[i].peers) : i \in BucketIds}

\* C6: when the table holds at least n active peers, findKey(key, n) returns
\* exactly n active peers and no active peer left out is strictly closer to
\* key than a returned one.
C6_FindKeyClosest ==
  (lastOp.op = "findKey")
    => LET key == lastOp.hn
           n == IF lastOp.arg = 0 THEN defaultLookupSize ELSE lastOp.arg
           out == Range(lastOp.out)
       IN Cardinality(Active) >= n
            => /\ Len(lastOp.out) = n
               /\ Cardinality(out) = n
               /\ out \subseteq Active
               /\ \A p \in Active \ out : \A q \in out :
                    ~distanceLess(keyDistance(p, key), keyDistance(q, key))

\* C4: on every channel the packets Receive has returned so far are the
\* sender's packets with seq 1, 2, ..., k in that order, each once, whatever
\* order and however often they came in; no packet the open receive buffer
\* was offered is lost (it was returned or is still buffered), and the next
\* packet in order can be returned as soon as it was offered.
C4_InOrderOnce ==
  \A id \in ChanIds :
    /\ delivered[id] = [k \in 1 .. Len(delivered[id]) |-> dataPkt(id, k)]
    /\ chan[id] # NoChannel =>
         /\ chan[id].rcv.next_in_order = Len(delivered[id]) + 1
         /\ offered[id].seqs \subseteq
              (1 .. Len(delivered[id])) \cup SeqsOf(chan[id].rcv.buf)
         /\ chan[id].rcv.next_in_order \in offered[id].seqs
              => rcv_ready(chan[id].rcv)

\* All MaxSeq packets were returned on a channel on which a packet came in
\* ahead of its turn and a packet came in twice.
C4_Witness ==
  \E id \in ChanIds :
    /\ Len(delivered[id]) = MaxSeq
    /\ offered[id].ahead
    /\ offered[id].dup

\* C5: a closed channel is not in the registry, and no packet that came in
\* after the close was passed to its receive buffer or its ack engine.
C5_ClosedIsDropped ==
  \A id \in ChanIds :
    (chan[id] # NoChannel /\ chan[id].rcv.closed) =>
      /\ id \notin channels
      /\ ~offered[id].late

\* C8: a task that reads or writes the registry holds the mutex, no read of
\* the registry falls into a write of it, and a task that handles a packet
\* or sends one does not hold the mutex.
C8_RegistryMutex ==
  /\ \A t \in Tasks : pc[t] \in {"lookup", "writing", "range"} => mtx = t
  /\ fault = "none"
  /\ \A t \in Tasks : pc[t] \in {"take", "serve", "send", "closing"} => mtx # t

\* The hashnames that are in a candidates or pending list and in no peers
\* list.
NotActive ==
  UNION {Names(buckets[i].candidates) \cup Names(buckets[i].pending)
           : i \in BucketIds} \ Active

\* C11: findKey(key, n) changes nothing in the table and returns at most n
\* hashnames (defaultLookupSize when n is 0), each of them an active peer,
\* none of them a hashname that is only candidate or pending, no hashname
\* twice, with non-decreasing XOR-distance to key.
C11_FindKeyResult ==
  /\ [](lastOp.op = "findKey" =>
          LET key == lastOp.hn
              n == IF lastOp.arg = 0 THEN defaultLookupSize ELSE lastOp.arg
              out == lastOp.out
          IN /\ Len(out) <= n
             /\ Range(out) \subseteq Active
             /\ Range(out) \cap NotActive = {}
             /\ Cardinality(Range(out)) = Len(out)
             /\ \A i \in 1 .. Len(out) : \A j \in i .. Len(out) :
                  keyDistance(out[i], key) <= keyDistance(out[j], key))
  /\ [][lastOp'.op = "findKey" =>
          UNCHANGED <<localHashname, buckets, released, nextTag>>]_vars

\* findKey returned two active peers in the order of their distance to a key,
\* which is not the order of their distance to the local hashname, while a
\* third hashname is in the table as candidate or pending only.
C11_Witness ==
  /\ lastOp.op = "findKey"
  /\ lastOp.arg = 2
  /\ Len(lastOp.out) = 2
  /\ distance(localHashname, lastOp.out[2]) < distance(localHashname, lastOp.out[1])
  /\ NotActive # {}

C13_CloseSendsEnd ==
  \A id \in ChanIds :
    (chan[id] # NoChannel /\ (chan[id].rcv.closed \/ chan[id].ack.closed)) =>
      /\ chan[id].rcv.closed
      /\ chan[id].ack.closed
      /\ \E p \in wire : p.hdr.C = id /\ p.hdr.End

\* C14: while _close_channels holds the mutex, and when it has just let go
\* of it, every registry entry it has visited is a closed channel for which
\* an end packet with the error "switch was terminated" was handed to the
\* line layer.
C14_StopClosesAll ==
  pc["stop"] \in {"range", "closing"} =>
    \A id \in channels \ todo :
      /\ chan[id].rcv.closed
      /\ chan[id].ack.closed
      /\ \E p \in wire : /\ p.hdr.C = id
                         /\ p.hdr.End
                         /\ p.hdr.Err = "switch was terminated"

\* C15: a remote-opened channel whose handler task has ended is closed; the
\* step that ends the task closes the ack engine and the receive buffer and,
\* the send window having room, hands exactly one packet to the line layer:
\* the end packet of the channel, with err "internal server error" when the
\* handler panicked (the panic is recovered in the task) and without err when
\* it returned.
C15_HandlerEndCloses ==
  /\ [](\A id \in ChanIds :
          handler[id] \in {"done", "recovered"} =>
            chan[id].rcv.closed /\ chan[id].ack.closed)
  /\ [][\A id \in ChanIds :
          (handler[id] = "running" /\ handler'[id] # "running") =>
            /\ handler'[id] \in {"done", "recovered"}
            /\ chan'[id].rcv.closed /\ chan'[id].ack.closed
            /\ \A p \in wire' \ wire :
                 /\ p.hdr.C = id
                 /\ p.hdr.End
                 /\ p.hdr.Err = IF handler'[id] = "recovered"
                                THEN "internal server error" ELSE ""
            /\ snd_room(chan[id].snd) => Cardinality(wire' \ wire) = 1]_vars

\* A handler panicked and its channel's end packet with the error is on the
\* wire.
C15_Witness ==
  /\ handler[RemoteId] = "recovered"
  /\ chan[RemoteId].rcv.closed
  /\ \E p \in wire : /\ p.hdr.C = RemoteId
                     /\ p.hdr.End
                     /\ p.hdr.Err = "internal server error"

\* C16: the datagram format_pkt writes for a packet is a two-byte big-endian
\* prefix, as many header bytes as the prefix says, and the body, the header
\* bytes being the encoded header; parse_pkt of that datagram succeeds and
\* returns the header and the body of the packet (a nil pointer, list or
\* body being the same as an empty one).
C16_Roundtrip ==
  outPkt.given =>
    LET l == (data[1] * 256) + data[2]
    IN /\ Len(data) = 2 + l + Len(outPkt.pkt.body)
       /\ data[Len(data) - Len(outPkt.pkt.body)] = NL
       /\ decode_hdr(SubSeq(data, 3, 2 + l)).ok
       /\ decode_hdr(SubSeq(data, 3, 2 + l)).next = l
       /\ SubSeq(data, 3 + l, Len(data)) = outPkt.pkt.body
       /\ inPkt # NoResult =>
            /\ inPkt.err = ""
            /\ inPkt.pkt.hdr = outPkt.pkt.hdr
            /\ inPkt.pkt.body = outPkt.pkt.body

\* A packet with every kind of field set, a string with an escaped quote, a
\* custom header and a body that starts like a header came back from
\* parse_pkt.
C16_Witness ==
  /\ outPkt.given
  /\ inPkt # NoResult
  /\ inPkt.pkt.hdr.Type = "t"
  /\ inPkt.pkt.hdr.Seq = 12
  /\ inPkt.pkt.hdr.Ack = <<0>>
  /\ inPkt.pkt.hdr.Miss = <<1, 10>>
  /\ inPkt.pkt.hdr.End
  /\ inPkt.pkt.hdr.Err = "q\""
  /\ inPkt.pkt.hdr.See = <<"t", "c1">>
  /\ Len(inPkt.pkt.hdr.Custom) > 0
  /\ inPkt.pkt.body = <<"{", DQ>>

\* The buckets that have a candidate and whose |peers| + |pending| is not
\* maxPeers.
Qualifying ==
  {i \in BucketIds : /\ Len(buckets[i].candidates) >= 1
                     /\ Len(buckets[i].peers) + Len(buckets[i].pending) # maxPeers}

\* C17: nextCandidate acts on the qualifying bucket of lowest index: the head
\* of its candidates list leaves that list, goes to the tail of its pending
\* list and is returned; its peers list and every other bucket stay as they
\* are.  When no bucket qualifies it returns nothing and changes nothing.
C17_NextCandidate ==
  [][lastOp'.op = "nextCandidate" =>
       IF Qualifying = {}
       THEN /\ lastOp'.out = <<>>
            /\ buckets' = buckets
       ELSE LET i == CHOOSE q \in Qualifying : \A r \in Qualifying : q <= r
                c == buckets[i].candidates[1]
            IN /\ lastOp'.out = <<c>>
               /\ buckets'[i].candidates = Tail(buckets[i].candidates)
               /\ buckets'[i].pending = buckets[i].pending \o <<c>>
               /\ buckets'[i].peers = buckets[i].peers
               /\ \A j \in BucketIds \ {i} : buckets'[j] = buckets[j]]_vars

\* nextCandidate returned the older of two candidates of a bucket: it is now
\* behind an earlier pending peer and the younger candidate is still a
\* candidate.
C17_Witness ==
  /\ lastOp.op = "nextCandidate"
  /\ Len(lastOp.out) = 1
  /\ \E i \in BucketIds :
       /\ Len(buckets[i].pending) = 2
       /\ buckets[i].pending[2] = lastOp.out[1]
       /\ Len(buckets[i].candidates) = 1

\* C18: no peers list holds a hashname twice, and activatePeer(hn, t2) for a
\* hashname that is active with tag t1 leaves every peers list as long as it
\* was, with the same entries in the same places, but for the entry of hn,
\* which now holds t2; t1 is released by the call and t2 is not released.
C18_ActivateIdempotent ==
  /\ [](\A i \in BucketIds :
          Cardinality(Names(buckets[i].peers)) = Len(buckets[i].peers))
  /\ [][(lastOp'.op = "activatePeer" /\ lastOp'.hn \in Active) =>
          LET hn == lastOp'.hn
              t2 == lastOp'.arg
          IN \A i \in BucketIds :
               /\ Len(buckets'[i].peers) = Len(buckets[i].peers)
               /\ \A k \in 1 .. Len(buckets[i].peers) :
                    IF buckets[i].peers[k].hashname = hn
                    THEN /\ buckets'[i].peers[k] =
                              [buckets[i].peers[k] EXCEPT !.tag = t2]
                         /\ released'[buckets[i].peers[k].tag] =
                              released[buckets[i].peers[k].tag] + 1
                         /\ released'[t2] = 0
                         /\ \A t \in Tags \ {buckets[i].peers[k].tag} :
                              released'[t] = released[t]
                    ELSE buckets'[i].peers[k] = buckets[i].peers[k]
               /\ buckets'[i].candidates = buckets[i].candidates]_vars

\* activatePeer was called for the first of two active peers of a bucket:
\* the peer is still first, holds the tag of that call, and its earlier tag
\* is released.
C18_Witness ==
  /\ lastOp.op = "activatePeer"
  /\ \E i \in BucketIds :
       /\ Len(buckets[i].peers) = 2
       /\ buckets[i].peers[1].hashname = lastOp.hn
       /\ buckets[i].peers[1].tag = lastOp.arg
       /\ buckets[i].peers[2].tag < lastOp.arg
       /\ released[lastOp.arg] = 0
       /\ \E t \in Tags : t < buckets[i].peers[2].tag /\ released[t] = 1

\* A packet with an empty body whose header has ack set and nothing else
\* but, possibly, miss and c.
PureAck(p) ==
  /\ Len(p.body) = 0
  /\ p.hdr.Ack # <<>>
  /\ [p.hdr EXCEPT !.Ack = <<>>, !.Miss = <<>>, !.C = ""] = zeroHdr

\* C19: when rcv_channel_pkt takes a pure ack for a known channel, the
\* receive buffer of the channel stays as it is, no received packet is
\* counted by the ack engine, nothing is returned by Receive because of it,
\* and the other channel is untouched; only the ack engine's view of what the
\* peer acknowledged and the send buffer may change.
C19_PureAck ==
  [][(lastOp' # lastOp /\ PureAck(lastOp'.out[2]) /\ lastOp'.out[1] \in channels) =>
       LET id == lastOp'.out[1]
       IN /\ chan'[id].rcv = chan[id].rcv
          /\ chan'[id].ack.unacked = chan[id].ack.unacked
          /\ chan'[id].ack.last_ack_sent = chan[id].ack.last_ack_sent
          /\ chan'[id].ack.last_miss_sent = chan[id].ack.last_miss_sent
          /\ offered'[id].seqs = offered[id].seqs
          /\ delivered' = delivered
          /\ \A o \in ChanIds \ {id} : chan'[o] = chan[o]]_vars

\* A pure ack was taken by an open channel that has a data packet waiting in
\* its receive buffer, no received packet to acknowledge counted, and a
\* packet left in its send buffer.
C19_Witness ==
  /\ lastOp.op = "rcv_channel_pkt"
  /\ PureAck(lastOp.out[2])
  /\ lastOp.out[1] \in channels
  /\ ~chan[lastOp.out[1]].rcv.closed
  /\ chan[lastOp.out[1]].rcv.buf # {}
  /\ ~chan[lastOp.out[1]].ack.unacked
  /\ chan[lastOp.out[1]].snd.buf # {}

\* C20: a packet whose sender is not the remote peer of the channel whose id
\* it carries leaves that channel as it is: nothing is put in its receive
\* buffer and its send buffer and ack engine are not touched.
C20_OtherPeerIgnored ==
  [][(/\ lastOp' # lastOp
      /\ lastOp'.op = "rcv_channel_pkt"
      /\ lastOp'.out[1] \in channels
      /\ lastOp'.out[2].peer # chan[lastOp'.out[1]].peer)
       => chan'[lastOp'.out[1]] = chan[lastOp'.out[1]]]_vars

\* C21: of the packets handed to the line layer for a channel, at most one
\* has end:true, and none has a sequence number above that of the end
\* packet: after the end packet no packet is given a sequence number or
\* sent on the channel, whether the closes come from the user handler, from
\* the end of the handler task or from the shutdown of the switch.
C21_OneEndThenSilence ==
  \A id \in ChanIds :
    \A p \in wire, q \in wire :
      (p.hdr.C = id /\ q.hdr.C = id /\ p.hdr.End) => q.hdr.Seq <= p.hdr.Seq

====
